---- MODULE Spec2Model ----
(***************************************************************************)
(* The LSP completion harness of cr-analyzer: the script main.py and the   *)
(* pytest fixture lsp_client (conftest.py) with its test (test_lsp.py).    *)
(*                                                                         *)
(* One run is one behaviour: prog says which entry point runs, pc is the   *)
(* position of its coroutine.  The server process, the wire, the deadline  *)
(* timers of asyncio.wait_for and the stderr reader task are the rest of   *)
(* the state.  The server is a black box: it may answer or stay silent,    *)
(* answer with an error, exit at any time, and ignore SIGTERM.             *)
(*                                                                         *)
(* Environment assumptions: every stderr line fits the stream limit and    *)
(* decodes, so the stderr reader task never ends with an exception; the    *)
(* few kilobytes the harness writes fit the stdin pipe, so closing stdin   *)
(* completes.                                                              *)
(***************************************************************************)
EXTENDS Integers, Sequences, FiniteSets

VARIABLES
    prog,          \* "main" (main.py) or "fixture" (conftest.py + test_lsp.py)
    pc,            \* position of the orchestrating coroutine
    proc,          \* "none" | "alive" | "exited": server_proc.returncode is None or not
    returncode,    \* server_proc.returncode: <<>> for None, <<c>> once exited
    stdinClosed,   \* server_proc.stdin.close() was called
    termSent,      \* server_proc.terminate() was called
    killSent,      \* server_proc.kill() was called
    waitExpired,   \* the bounded wait for exit in teardown timed out
    drain,         \* stderr_task: "none" | "pending" | "done" | "cancelled"
    asyncTasks,    \* client._async_tasks: "none" | "pending" | "done" | "cancelled"
    sent,          \* the messages written to the server, in order
    initAnswered,  \* the initialize response was received
    inflight,      \* the request whose response is awaited ("none" if none)
    timer,         \* seconds of the armed wait_for deadline (0: none is armed)
    outcome,       \* the exception that ended the run's body ("none" if none)
    failedAt,      \* Len(sent) when that exception was raised
    checked,       \* what print_result reported for each probe so far, in order
    stopReturned,  \* teardown ran to its end and returned
    call,          \* a call of one of the pure functions, alone: its arguments
                   \* and, once applied, its result (NoCall in a run)
    diag           \* "surfaced" once teardown has printed what stderr held

vars == <<prog, pc, proc, returncode, stdinClosed, termSent, killSent, waitExpired,
          drain, asyncTasks, sent, initAnswered, inflight, timer, outcome,
          failedAt, checked, stopReturned, call, diag>>

procVars == <<proc, returncode>>
sigVars == <<stdinClosed, termSent, killSent, waitExpired>>
wireVars == <<sent, initAnswered, inflight, timer>>

----------------------------------------------------------------------------
(* Program constants                                                       *)

REQUEST_TIMEOUT == 10
INIT_TIMEOUT == 60
STOP_TIMEOUT == 2
TEST_TIMEOUT == 15
FIXTURE_WAIT_TIMEOUT == 5

\* Return codes: a clean exit, a failure, death by SIGTERM, death by SIGKILL.
ReturnCodes == [ok |-> 0, failure |-> 1, sigterm |-> -15, sigkill |-> -9]

\* No pure function is called on its own.
NoCall == [fn |-> "none"]

\* The longest item list a server answers with in the model.
MaxItems == 2

\* The four probes of main.py, in the order main() issues them.  trigger is
\* the trigger_character argument: <<>> for None, <<s>> for the str s.
Probes ==
    << [label |-> "method",  trigger |-> <<".">>, expected |-> <<"greet", "grab">>],
       [label |-> "ivar",    trigger |-> <<"@">>, expected |-> <<"@bar", "@baz">>],
       [label |-> "keyword", trigger |-> <<>>,    expected |-> <<"return">>],
       [label |-> "require", trigger |-> <<>>,    expected |-> <<"foo/bar", "foo/baz">>] >>

ProbeLabels == {Probes[i].label : i \in 1..Len(Probes)}

Completion(label) == "completion(" \o label \o ")"

\* The only request of test_completion_e2e.
TestRequest == Completion("test")

Range(s) == {s[i] : i \in 1..Len(s)}

\* What a server may put in the items of a completion answer to probe i.
OtherLabel == "other"
LabelsFor(i) == Range(Probes[i].expected) \cup {OtherLabel}

SeqsUpTo(S, n) == UNION {[1..k -> S] : k \in 0..n}

ItemsOver(S) == SeqsUpTo({[label |-> l] : l \in S}, MaxItems)

\* The shapes of a completion result: a CompletionList, a bare
\* CompletionItem[] array, or null.
Shapes == {"list", "array", "null"}

----------------------------------------------------------------------------
(* print_result                                                            *)

ItemLabels(items) == {items[i].label : i \in 1..Len(items)}

IsHit(items, label) == label \in ItemLabels(items)

\* Hits listed in the order of the server: the items whose label is expected.
HitsInServerOrder(items, expected) ==
    LET labels == [i \in 1..Len(items) |-> items[i].label]
    IN  SelectSeq(labels, LAMBDA l : l \in Range(expected))

Hits(items, expected) == SelectSeq(expected, LAMBDA l : IsHit(items, l))

\* Misses that were not filtered: every expected label.
MissesUnfiltered(items, expected) == expected

Misses(items, expected) == SelectSeq(expected, LAMBDA l : ~IsHit(items, l))

\* What print_result reports under its title: the hits and the misses.
PrintResult(title, items, expected) ==
    [title |-> title,
     hits |-> Hits(items, expected), misses |-> Misses(items, expected)]

\* A print_result that raised on a missing label.
PrintResultRaisesOnMiss(items, expected) == Misses(items, expected) # <<>>

\* print_result only logs: no list of misses raises.
PrintResultRaises(items, expected) == FALSE

----------------------------------------------------------------------------
Init ==
    /\ prog \in {"main", "fixture"}
    /\ pc = "start"
    /\ proc = "none"
    /\ returncode = <<>>
    /\ stdinClosed = FALSE
    /\ termSent = FALSE
    /\ killSent = FALSE
    /\ waitExpired = FALSE
    /\ drain = "none"
    /\ asyncTasks = "none"
    /\ sent = <<>>
    /\ initAnswered = FALSE
    /\ inflight = "none"
    /\ timer = 0
    /\ outcome = "none"
    /\ failedAt = 0
    /\ checked = <<>>
    /\ stopReturned = FALSE
    /\ call = NoCall
    /\ diag = "none"

\* An exception leaves the body of the run: remember which, and where.
Raise(what) ==
    /\ outcome' = what
    /\ failedAt' = Len(sent)

Send(msg) == sent' = Append(sent, msg)

----------------------------------------------------------------------------
(* The server process and the tasks that follow it                         *)

\* client.start_io(...) spawned the server: pygls keeps the process in
\* client._server and its two reader tasks in client._async_tasks.  The
\* caller then creates its stderr reader task, with no await in between.
SpawnOk ==
    /\ pc = "start"
    /\ proc' = "alive"
    /\ asyncTasks' = "pending"
    /\ drain' = "pending"
    /\ pc' = IF prog = "main" THEN "init" ELSE "f_init"
    /\ UNCHANGED <<call, diag, prog, returncode, sigVars, wireVars, outcome, failedAt,
                   checked, stopReturned>>

\* client.start_io(...) raised: the executable could not be launched.  The
\* call stands before every try block, so the exception ends the run.
SpawnFails ==
    /\ pc = "start"
    /\ Raise("spawn")
    /\ pc' = "done"
    /\ UNCHANGED <<call, diag, prog, procVars, sigVars, drain, asyncTasks, wireVars,
                   checked, stopReturned>>

\* The codes a server that exits by itself may return: after SIGTERM was
\* sent this includes death by that signal.
OwnExitCodes ==
    {ReturnCodes.ok, ReturnCodes.failure}
        \cup (IF termSent THEN {ReturnCodes.sigterm} ELSE {})

\* The server exits: by itself, on the end of its input, or on SIGTERM.
\* Nothing obliges it to.
ProcExits ==
    /\ proc = "alive"
    /\ \E code \in OwnExitCodes : returncode' = <<code>>
    /\ proc' = "exited"
    /\ UNCHANGED <<call, diag, prog, pc, sigVars, drain, asyncTasks, wireVars, outcome,
                   failedAt, checked, stopReturned>>

\* SIGKILL cannot be caught: the server dies of it.
ProcKilled ==
    /\ proc = "alive"
    /\ killSent
    /\ returncode' = <<ReturnCodes.sigkill>>
    /\ proc' = "exited"
    /\ UNCHANGED <<call, diag, prog, pc, sigVars, drain, asyncTasks, wireVars, outcome,
                   failedAt, checked, stopReturned>>

\* The stderr reader task reads end-of-stream once the server is gone, and
\* returns.
DrainEof ==
    /\ drain = "pending"
    /\ proc = "exited"
    /\ drain' = "done"
    /\ UNCHANGED <<call, diag, prog, pc, procVars, sigVars, asyncTasks, wireVars, outcome,
                   failedAt, checked, stopReturned>>

\* The tasks of the client (the stdout reader and the exit notifier) end
\* once the server is gone.
TasksFinish ==
    /\ asyncTasks = "pending"
    /\ proc = "exited"
    /\ asyncTasks' = "done"
    /\ UNCHANGED <<call, diag, prog, pc, procVars, sigVars, drain, wireVars, outcome,
                   failedAt, checked, stopReturned>>

----------------------------------------------------------------------------
(* main.py: main()                                                         *)

\* await_with_timeout(client.initialize_async(...), "initialize", INIT_TIMEOUT)
MainSendInitialize ==
    /\ prog = "main"
    /\ pc = "init"
    /\ Send("initialize")
    /\ inflight' = "initialize"
    /\ timer' = INIT_TIMEOUT
    /\ pc' = "init_wait"
    /\ UNCHANGED <<call, diag, prog, procVars, sigVars, drain, asyncTasks, initAnswered,
                   outcome, failedAt, checked, stopReturned>>

\* The InitializeResult arrives before the deadline.
MainInitResult ==
    /\ prog = "main"
    /\ pc = "init_wait"
    /\ proc = "alive"
    /\ initAnswered' = TRUE
    /\ inflight' = "none"
    /\ timer' = 0
    /\ pc' = "initialized"
    /\ UNCHANGED <<call, diag, prog, procVars, sigVars, drain, asyncTasks, sent, outcome,
                   failedAt, checked, stopReturned>>

\* The server answers a request of main() with an error response: the
\* awaited call raises and the exception leaves the try body.
MainErrorResponse ==
    /\ prog = "main"
    /\ pc \in {"init_wait", "probe_wait"}
    /\ proc = "alive"
    /\ Raise("error")
    /\ inflight' = "none"
    /\ timer' = 0
    /\ pc' = "finally"
    /\ UNCHANGED <<call, diag, prog, procVars, sigVars, drain, asyncTasks, sent,
                   initAnswered, checked, stopReturned>>

\* An await_with_timeout whose deadline fired without the request being
\* cancelled (the awaited call shielded from wait_for).
MainRequestTimeoutNoCancel ==
    /\ prog = "main"
    /\ pc \in {"init_wait", "probe_wait"}
    /\ timer > 0
    /\ Raise("timeout")
    /\ timer' = 0
    /\ pc' = "finally"
    /\ UNCHANGED <<call, diag, prog, procVars, sigVars, drain, asyncTasks, sent,
                   initAnswered, inflight, checked, stopReturned>>

\* An await_with_timeout that logged the timeout and did not raise it
\* again: main() goes on after the initialize that timed out.
MainRequestTimeoutSwallowed ==
    /\ prog = "main"
    /\ pc \in {"init_wait", "probe_wait"}
    /\ timer > 0
    /\ Raise("timeout")
    /\ inflight' = "none"
    /\ timer' = 0
    /\ pc' = IF pc = "init_wait" THEN "initialized" ELSE "finally"
    /\ UNCHANGED <<call, diag, prog, procVars, sigVars, drain, asyncTasks, sent,
                   initAnswered, checked, stopReturned>>

\* await_with_timeout: the deadline of wait_for expires.  wait_for cancels
\* the awaited request, the timeout is logged and raised again.
MainRequestTimeout ==
    /\ prog = "main"
    /\ pc \in {"init_wait", "probe_wait"}
    /\ timer > 0
    /\ Raise("timeout")
    /\ inflight' = "none"
    /\ timer' = 0
    /\ pc' = "finally"
    /\ UNCHANGED <<call, diag, prog, procVars, sigVars, drain, asyncTasks, sent,
                   initAnswered, checked, stopReturned>>

\* client.initialized(types.InitializedParams())
MainSendInitialized ==
    /\ prog = "main"
    /\ pc = "initialized"
    /\ Send("initialized")
    /\ pc' = "did_open"
    /\ UNCHANGED <<call, diag, prog, procVars, sigVars, drain, asyncTasks, initAnswered,
                   inflight, timer, outcome, failedAt, checked, stopReturned>>

\* client.text_document_did_open(...)
MainDidOpen ==
    /\ prog = "main"
    /\ pc = "did_open"
    /\ Send("didOpen")
    /\ pc' = "settle"
    /\ UNCHANGED <<call, diag, prog, procVars, sigVars, drain, asyncTasks, initAnswered,
                   inflight, timer, outcome, failedAt, checked, stopReturned>>

\* await asyncio.sleep(0.2)
MainSettle ==
    /\ prog = "main"
    /\ pc = "settle"
    /\ pc' = "probe"
    /\ UNCHANGED <<call, diag, prog, procVars, sigVars, drain, asyncTasks, wireVars,
                   outcome, failedAt, checked, stopReturned>>

\* The probe main() issues next: one past those already checked.
NextProbe == Len(checked) + 1

\* await_with_timeout(request_completion(...), "completion(...)", REQUEST_TIMEOUT)
MainSendProbe ==
    /\ prog = "main"
    /\ pc = "probe"
    /\ Send(Completion(Probes[NextProbe].label))
    /\ inflight' = Completion(Probes[NextProbe].label)
    /\ timer' = REQUEST_TIMEOUT
    /\ pc' = "probe_wait"
    /\ UNCHANGED <<call, diag, prog, procVars, sigVars, drain, asyncTasks, initAnswered,
                   outcome, failedAt, checked, stopReturned>>

\* The completion result arrives before the deadline; main() takes its
\* .items and hands them to print_result, then goes on to the next probe.
MainProbeResult ==
    /\ prog = "main"
    /\ pc = "probe_wait"
    /\ proc = "alive"
    /\ \E shape \in Shapes, items \in ItemsOver(LabelsFor(NextProbe)) :
        LET expected == Probes[NextProbe].expected IN
        IF shape # "list"
        THEN \* a list ("array") or None ("null") has no attribute items
             /\ Raise(shape)
             /\ pc' = "finally"
             /\ UNCHANGED checked
        ELSE /\ checked' = Append(checked, PrintResult(Probes[NextProbe].label,
                                                          items, expected))
             /\ IF PrintResultRaises(items, expected)
                THEN Raise("miss") /\ pc' = "finally"
                ELSE /\ UNCHANGED <<outcome, failedAt>>
                     /\ pc' = IF NextProbe < Len(Probes) THEN "probe" ELSE "finally"
    /\ inflight' = "none"
    /\ timer' = 0
    /\ UNCHANGED <<call, diag, prog, procVars, sigVars, drain, asyncTasks, sent,
                   initAnswered, stopReturned>>

\* finally: stderr_task.cancel(), then await stderr_task, a CancelledError
\* being passed over.  A task that had returned already stays as it is.
MainFinally ==
    /\ prog = "main"
    /\ pc = "finally"
    /\ drain' = IF drain = "pending" THEN "cancelled" ELSE drain
    /\ pc' = "stop"
    /\ UNCHANGED <<call, diag, prog, procVars, sigVars, asyncTasks, wireVars, outcome,
                   failedAt, checked, stopReturned>>

----------------------------------------------------------------------------
(* main.py: stop_client(client)                                            *)

\* stop_event.set(); stdin.close(); await stdin.wait_closed(), whose
\* failure is passed over.
StopCloseStdin ==
    /\ prog = "main"
    /\ pc = "stop"
    /\ stdinClosed' = TRUE
    /\ pc' = "stop_check"
    /\ UNCHANGED <<call, diag, prog, procVars, termSent, killSent, waitExpired, drain,
                   asyncTasks, wireVars, outcome, failedAt, checked, stopReturned>>

\* A stop_client that awaited server_proc.wait() with no wait_for around
\* it: no deadline is armed.
StopTerminateUnbounded ==
    /\ prog = "main"
    /\ pc = "stop_check"
    /\ proc = "alive"
    /\ termSent' = TRUE
    /\ timer' = 0
    /\ pc' = "stop_wait"
    /\ UNCHANGED <<call, diag, prog, procVars, stdinClosed, killSent, waitExpired, drain,
                   asyncTasks, sent, initAnswered, inflight, outcome, failedAt,
                   checked, stopReturned>>

\* if server_proc.returncode is None: server_proc.terminate(), then
\* wait_for(server_proc.wait(), timeout=2.0) begins.
StopTerminate ==
    /\ prog = "main"
    /\ pc = "stop_check"
    /\ proc = "alive"
    /\ termSent' = TRUE
    /\ timer' = STOP_TIMEOUT
    /\ pc' = "stop_wait"
    /\ UNCHANGED <<call, diag, prog, procVars, stdinClosed, killSent, waitExpired, drain,
                   asyncTasks, sent, initAnswered, inflight, outcome, failedAt,
                   checked, stopReturned>>

\* server_proc.returncode is set already: no signal is sent.
StopSkipTerminate ==
    /\ prog = "main"
    /\ pc = "stop_check"
    /\ proc = "exited"
    /\ pc' = "stop_tasks"
    /\ UNCHANGED <<call, diag, prog, procVars, sigVars, drain, asyncTasks, wireVars,
                   outcome, failedAt, checked, stopReturned>>

\* server_proc.wait() returns within the two seconds.
StopWaitExited ==
    /\ prog = "main"
    /\ pc = "stop_wait"
    /\ proc = "exited"
    /\ timer' = 0
    /\ pc' = "stop_tasks"
    /\ UNCHANGED <<call, diag, prog, procVars, sigVars, drain, asyncTasks, sent,
                   initAnswered, inflight, outcome, failedAt, checked, stopReturned>>

\* A stop_client that passed over the TimeoutError without killing.
StopWaitTimeoutNoKill ==
    /\ prog = "main"
    /\ pc = "stop_wait"
    /\ proc = "alive"
    /\ timer > 0
    /\ waitExpired' = TRUE
    /\ timer' = 0
    /\ pc' = "stop_tasks"
    /\ UNCHANGED <<call, diag, prog, procVars, stdinClosed, termSent, killSent, drain,
                   asyncTasks, sent, initAnswered, inflight, outcome, failedAt,
                   checked, stopReturned>>

\* except asyncio.TimeoutError: server_proc.kill(), then the unbounded
\* await server_proc.wait() begins.
StopWaitTimeout ==
    /\ prog = "main"
    /\ pc = "stop_wait"
    /\ proc = "alive"
    /\ timer > 0
    /\ waitExpired' = TRUE
    /\ killSent' = TRUE
    /\ timer' = 0
    /\ pc' = "stop_killwait"
    /\ UNCHANGED <<call, diag, prog, procVars, stdinClosed, termSent, drain, asyncTasks,
                   sent, initAnswered, inflight, outcome, failedAt, checked, stopReturned>>

\* await server_proc.wait() after the kill returns.
StopKillWaitExited ==
    /\ prog = "main"
    /\ pc = "stop_killwait"
    /\ proc = "exited"
    /\ pc' = "stop_tasks"
    /\ UNCHANGED <<call, diag, prog, procVars, sigVars, drain, asyncTasks, wireVars,
                   outcome, failedAt, checked, stopReturned>>

\* Every task of client._async_tasks that is not done is cancelled, and
\* gather(..., return_exceptions=True) awaits them all; stop_client returns.
StopCancelTasks ==
    /\ prog = "main"
    /\ pc = "stop_tasks"
    /\ asyncTasks' = IF asyncTasks = "pending" THEN "cancelled" ELSE asyncTasks
    /\ stopReturned' = TRUE
    /\ pc' = "done"
    /\ UNCHANGED <<call, diag, prog, procVars, sigVars, drain, wireVars, outcome,
                   failedAt, checked>>

----------------------------------------------------------------------------
(* conftest.py: the fixture lsp_client, and test_lsp.py: its test          *)

\* await client.initialize_async(...): no wait_for, so no deadline.
FixtureSendInitialize ==
    /\ prog = "fixture"
    /\ pc = "f_init"
    /\ Send("initialize")
    /\ inflight' = "initialize"
    /\ pc' = "f_init_wait"
    /\ UNCHANGED <<call, diag, prog, procVars, sigVars, drain, asyncTasks, initAnswered,
                   timer, outcome, failedAt, checked, stopReturned>>

\* The InitializeResult arrives; the fixture yields the client to the test.
FixtureInitResult ==
    /\ prog = "fixture"
    /\ pc = "f_init_wait"
    /\ proc = "alive"
    /\ initAnswered' = TRUE
    /\ inflight' = "none"
    /\ pc' = "t_request"
    /\ UNCHANGED <<call, diag, prog, procVars, sigVars, drain, asyncTasks, sent, timer,
                   outcome, failedAt, checked, stopReturned>>

\* The server answers initialize with an error response.  The exception is
\* no RuntimeError: it leaves the fixture, which has not entered the try
\* block whose finally tears down.
FixtureInitError ==
    /\ prog = "fixture"
    /\ pc = "f_init_wait"
    /\ proc = "alive"
    /\ Raise("error")
    /\ inflight' = "none"
    /\ pc' = "done"
    /\ UNCHANGED <<call, diag, prog, procVars, sigVars, drain, asyncTasks, sent,
                   initAnswered, timer, checked, stopReturned>>

\* initialize_async raises a RuntimeError because the server is gone.
FixtureInitRuntimeError ==
    /\ prog = "fixture"
    /\ pc = "f_init_wait"
    /\ proc = "exited"
    /\ inflight' = "none"
    /\ pc' = "f_init_except"
    /\ UNCHANGED <<call, diag, prog, procVars, sigVars, drain, asyncTasks, sent,
                   initAnswered, timer, outcome, failedAt, checked, stopReturned>>

\* except RuntimeError: server and server.stderr are there, and
\* await server.stderr.read() begins, whatever the pump task is doing.
FixtureInitExcept ==
    /\ prog = "fixture"
    /\ pc = "f_init_except"
    /\ pc' = "f_init_read"
    /\ UNCHANGED <<call, diag, prog, procVars, sigVars, drain, asyncTasks, wireVars,
                   outcome, failedAt, checked, stopReturned>>

\* The read ends, with what was left of stderr or with the RuntimeError of
\* a stream that has a reader waiting already; either way a RuntimeError
\* leaves the fixture, with no teardown.
FixtureInitRead ==
    /\ prog = "fixture"
    /\ pc = "f_init_read"
    /\ Raise("error")
    /\ pc' = "done"
    /\ UNCHANGED <<call, diag, prog, procVars, sigVars, drain, asyncTasks, wireVars,
                   checked, stopReturned>>

\* test_completion_e2e: asyncio.wait_for(
\*     lsp_client.text_document_completion_async(...), timeout=15)
TestSendCompletion ==
    /\ prog = "fixture"
    /\ pc = "t_request"
    /\ Send(TestRequest)
    /\ inflight' = TestRequest
    /\ timer' = TEST_TIMEOUT
    /\ pc' = "t_wait"
    /\ UNCHANGED <<call, diag, prog, procVars, sigVars, drain, asyncTasks, initAnswered,
                   outcome, failedAt, checked, stopReturned>>

\* The result arrives: labels = [item.label for item in result.items] and
\* assert labels.  The test ends, passed or failed, and the fixture resumes
\* in its finally block.
TestResult ==
    /\ prog = "fixture"
    /\ pc = "t_wait"
    /\ proc = "alive"
    /\ \E shape \in Shapes, items \in ItemsOver({OtherLabel}) :
        IF shape # "list"
        THEN Raise(shape)
        ELSE IF items = <<>>
             THEN Raise("assert")
             ELSE UNCHANGED <<outcome, failedAt>>
    /\ inflight' = "none"
    /\ timer' = 0
    /\ pc' = "f_teardown"
    /\ UNCHANGED <<call, diag, prog, procVars, sigVars, drain, asyncTasks, sent,
                   initAnswered, checked, stopReturned>>

\* The server answers the request of the test with an error response.
TestErrorResponse ==
    /\ prog = "fixture"
    /\ pc = "t_wait"
    /\ proc = "alive"
    /\ Raise("error")
    /\ inflight' = "none"
    /\ timer' = 0
    /\ pc' = "f_teardown"
    /\ UNCHANGED <<call, diag, prog, procVars, sigVars, drain, asyncTasks, sent,
                   initAnswered, checked, stopReturned>>

\* The deadline of the test's wait_for expires: the request is cancelled
\* and TimeoutError fails the test.
TestTimeout ==
    /\ prog = "fixture"
    /\ pc = "t_wait"
    /\ timer > 0
    /\ Raise("timeout")
    /\ inflight' = "none"
    /\ timer' = 0
    /\ pc' = "f_teardown"
    /\ UNCHANGED <<call, diag, prog, procVars, sigVars, drain, asyncTasks, sent,
                   initAnswered, checked, stopReturned>>

\* finally: await client.stop() begins.  The client sets its stop event and
\* terminates the server if its returncode is None; stdin is left open.
FixtureClientStop ==
    /\ prog = "fixture"
    /\ pc = "f_teardown"
    /\ termSent' = (termSent \/ proc = "alive")
    /\ pc' = "f_stop_gather"
    /\ UNCHANGED <<call, diag, prog, procVars, stdinClosed, killSent, waitExpired, drain,
                   asyncTasks, wireVars, outcome, failedAt, checked, stopReturned>>

\* client.stop() returns and wait_for(server.wait(), timeout=5) begins.
\* The fixture provides for a server that is still alive at this point, so
\* the return is not tied to the exit of the server.
FixtureStopReturns ==
    /\ prog = "fixture"
    /\ pc = "f_stop_gather"
    /\ timer' = FIXTURE_WAIT_TIMEOUT
    /\ pc' = "f_wait"
    /\ UNCHANGED <<call, diag, prog, procVars, sigVars, drain, asyncTasks, sent,
                   initAnswered, inflight, outcome, failedAt, checked, stopReturned>>

\* server.wait() returns within the five seconds.
FixtureWaitExited ==
    /\ prog = "fixture"
    /\ pc = "f_wait"
    /\ proc = "exited"
    /\ timer' = 0
    /\ pc' = "f_diag"
    /\ UNCHANGED <<call, diag, prog, procVars, sigVars, drain, asyncTasks, sent,
                   initAnswered, inflight, outcome, failedAt, checked, stopReturned>>

\* except asyncio.TimeoutError: server.kill(), then await server.wait().
FixtureWaitTimeout ==
    /\ prog = "fixture"
    /\ pc = "f_wait"
    /\ proc = "alive"
    /\ timer > 0
    /\ waitExpired' = TRUE
    /\ killSent' = TRUE
    /\ timer' = 0
    /\ pc' = "f_killwait"
    /\ UNCHANGED <<call, diag, prog, procVars, stdinClosed, termSent, drain, asyncTasks,
                   sent, initAnswered, inflight, outcome, failedAt, checked, stopReturned>>

\* await server.wait() after the kill returns.
FixtureKillWaitExited ==
    /\ prog = "fixture"
    /\ pc = "f_killwait"
    /\ proc = "exited"
    /\ pc' = "f_diag"
    /\ UNCHANGED <<call, diag, prog, procVars, sigVars, drain, asyncTasks, wireVars,
                   outcome, failedAt, checked, stopReturned>>

\* server.returncode is true (set, and not 0).
NonZeroExit == returncode # <<>> /\ returncode[1] # 0

\* if server.returncode and server.stderr: await server.stderr.read()
\* begins, whatever the pump task is doing; with a return code of 0 the
\* block is passed over.
FixtureDiag ==
    /\ prog = "fixture"
    /\ pc = "f_diag"
    /\ pc' = IF NonZeroExit THEN "f_diag_read" ELSE "f_join"
    /\ UNCHANGED <<call, diag, prog, procVars, sigVars, drain, asyncTasks, wireVars,
                   outcome, failedAt, checked, stopReturned>>

\* The read returns what the pump task has left of stderr: nothing if the
\* pump has read the stream to its end.  if err: it is printed.
FixtureDiagRead ==
    /\ prog = "fixture"
    /\ pc = "f_diag_read"
    /\ \E left \in (IF drain = "pending" THEN BOOLEAN ELSE {FALSE}) :
        diag' = IF left THEN "surfaced" ELSE diag
    /\ pc' = "f_join"
    /\ UNCHANGED <<call, prog, procVars, sigVars, drain, asyncTasks, wireVars,
                   outcome, failedAt, checked, stopReturned>>

\* The pump task is waiting in readline() on the same stream: read()
\* raises RuntimeError, which leaves the finally block.
FixtureDiagReadRaises ==
    /\ prog = "fixture"
    /\ pc = "f_diag_read"
    /\ drain = "pending"
    /\ Raise("reader")
    /\ pc' = "done"
    /\ UNCHANGED <<call, diag, prog, procVars, sigVars, drain, asyncTasks, wireVars,
                   checked, stopReturned>>

\* await stderr_task returns once the task has read end-of-stream; after
\* asyncio.sleep(0) the fixture is over.
FixtureJoinDrain ==
    /\ prog = "fixture"
    /\ pc = "f_join"
    /\ drain = "done"
    /\ stopReturned' = TRUE
    /\ pc' = "done"
    /\ UNCHANGED <<call, diag, prog, procVars, sigVars, drain, asyncTasks, wireVars,
                   outcome, failedAt, checked>>

----------------------------------------------------------------------------
\* The steps of the harness itself: the event loop runs each as soon as
\* what it awaits is there.
Step ==
    \/ SpawnOk
    \/ SpawnFails
    \/ MainSendInitialize
    \/ MainSendInitialized
    \/ MainDidOpen
    \/ MainSettle
    \/ MainSendProbe
    \/ MainFinally
    \/ StopCloseStdin
    \/ StopTerminate
    \/ StopSkipTerminate
    \/ StopWaitExited
    \/ StopKillWaitExited
    \/ StopCancelTasks
    \/ FixtureSendInitialize
    \/ FixtureInitExcept
    \/ FixtureInitRead
    \/ TestSendCompletion
    \/ FixtureClientStop
    \/ FixtureStopReturns
    \/ FixtureWaitExited
    \/ FixtureKillWaitExited
    \/ FixtureDiag
    \/ FixtureDiagRead
    \/ FixtureDiagReadRaises
    \/ FixtureJoinDrain

\* The deadlines of wait_for: an armed timer fires unless what is awaited
\* arrives first.
Deadline ==
    \/ MainRequestTimeout
    \/ StopWaitTimeout
    \/ TestTimeout
    \/ FixtureWaitTimeout

\* What the server does, or fails to do.
Server ==
    \/ MainInitResult
    \/ MainErrorResponse
    \/ MainProbeResult
    \/ FixtureInitResult
    \/ FixtureInitError
    \/ FixtureInitRuntimeError
    \/ TestResult
    \/ TestErrorResponse
    \/ ProcExits

\* What the operating system and the event loop do once the server is
\* killed or gone.
Reaping ==
    \/ ProcKilled
    \/ DrainEof
    \/ TasksFinish

Next == Step \/ Deadline \/ Server \/ Reaping

Spec == Init /\ [][Next]_vars

\* The event loop runs every ready step and fires every armed timer; a
\* killed process dies and its pipes reach end-of-stream.  The server is
\* under no obligation.
FairSpec ==
    /\ Spec
    /\ WF_vars(Step)
    /\ WF_vars(Deadline)
    /\ WF_vars(Reaping)

----------------------------------------------------------------------------
(* Notions the claims use                                                  *)

\* The positions of the teardown: the finally block of main() with
\* stop_client, and the finally block of the fixture.
MainTeardown == {"finally", "stop", "stop_check", "stop_wait", "stop_killwait",
                 "stop_tasks"}

FixtureTeardown == {"f_teardown", "f_stop_gather", "f_wait", "f_killwait",
                    "f_diag", "f_diag_read", "f_join"}

InTeardown == pc \in MainTeardown \cup FixtureTeardown

\* The messages main() sends when nothing fails, in its order.
MainOrder ==
    <<"initialize", "initialized", "didOpen">>
        \o [i \in 1..Len(Probes) |-> Completion(Probes[i].label)]

IsPrefix(s, t) == Len(s) <= Len(t) /\ \A i \in 1..Len(s) : s[i] = t[i]

\* The exceptions that are a timeout or a failure of a stage.
Failures == {"spawn", "timeout", "error", "array", "null", "assert", "miss",
             "reader"}

\* The initialize request of main() timed out: nothing but initialize had
\* been sent when the timeout was raised.
InitTimedOut == prog = "main" /\ outcome = "timeout" /\ failedAt = 1

\* A completion probe of main() timed out.
ProbeTimedOut == prog = "main" /\ outcome = "timeout" /\ failedAt > 3

----------------------------------------------------------------------------
(* Claims                                                                  *)

\* C1: whenever the teardown has returned (stop_client in main.py, the
\* finally block of the fixture), the server process has exited, its
\* returncode is set, and the stderr reader task is done: completed or
\* cancelled.  This holds whatever the server does, SIGTERM ignored included.
C1_TeardownLeavesNothingRunning ==
    stopReturned =>
        /\ proc = "exited"
        /\ returncode # <<>>
        /\ drain \in {"done", "cancelled"}

\* C1 witness: stop_client has returned after a server that ignored SIGTERM
\* through the whole bounded wait was killed.
C1_Witness ==
    /\ stopReturned
    /\ prog = "main"
    /\ termSent /\ waitExpired /\ killSent
    /\ returncode = <<ReturnCodes.sigkill>>

\* C2: after a timeout or a failure at any stage no further message is
\* sent, and when the run ends the teardown has been carried out: the
\* server process is not left alive and the stderr reader task is not left
\* pending.
C2_FailFastThenTeardown ==
    /\ outcome \in Failures => Len(sent) = failedAt
    /\ (pc = "done" /\ outcome \in Failures) =>
           (proc # "alive" /\ drain # "pending")

\* C3: a didOpen notification or a completion request is sent only after
\* the handshake: the initialize response was received and the initialized
\* notification was sent before it.
C3_HandshakeBeforeRequests ==
    \A i \in 1..Len(sent) :
        sent[i] \notin {"initialize", "initialized"} =>
            /\ initAnswered
            /\ \E j \in 1..(i - 1) : sent[j] = "initialized"

\* C4: in teardown stdin is closed first: SIGTERM is sent only after stdin
\* was closed, and SIGKILL only after stdin was closed, SIGTERM was sent and
\* the bounded wait for the exit expired.
C4_TeardownOrder ==
    /\ termSent => stdinClosed
    /\ killSent => (stdinClosed /\ termSent /\ waitExpired)

\* C5: the stderr reader task is cancelled only after the server process
\* has exited: in no state is the process alive and the task cancelled.
C5_DrainOutlivesProcess == ~(proc = "alive" /\ drain = "cancelled")

\* C6: the teardown never begins, and no step of it is taken, while a
\* request is in flight: every request sent before has been answered, has
\* timed out or has been cancelled.
C6_NoRequestInFlightInTeardown ==
    (InTeardown \/ stdinClosed \/ termSent \/ killSent) => inflight = "none"

\* C6 witness: a completion probe timed out, its request was cancelled, and
\* stop_client has begun to take the process down.
C6_Witness ==
    /\ ProbeTimedOut
    /\ pc = "stop_wait"
    /\ stdinClosed /\ termSent

\* C7: once the initialize request of main() has timed out, initialize is
\* all that was ever sent (no initialized, no didOpen, no completion, no
\* second initialize), the session is never initialized, and main() is in
\* its teardown or, having gone through it, at its end.
C7_InitTimeoutIsTerminal ==
    InitTimedOut =>
        /\ sent = <<"initialize">>
        /\ ~initAnswered
        /\ pc \in MainTeardown \cup {"done"}
        /\ pc = "done" => stopReturned

\* C7 witness: the initialize request timed out and the teardown that
\* followed has returned.
C7_Witness == InitTimedOut /\ pc = "done" /\ stopReturned

\* C8: every wait for a response of the server has a deadline: while a
\* request is in flight a wait_for timer is armed.
C8_EveryWaitHasDeadline == inflight # "none" => timer > 0

\* C9: after the timeout of a completion probe of main() the teardown
\* terminates: stop_client eventually returns, whatever the server does with
\* the end of its input and with SIGTERM, and whatever tasks are pending.
C9_StopReturnsAfterTimeout == ProbeTimedOut ~> stopReturned

\* C9 witness: a probe timed out, the server ignored the end of its input
\* and SIGTERM and was killed, the pending client tasks were cancelled, and
\* stop_client has returned.
C9_Witness ==
    /\ ProbeTimedOut
    /\ stopReturned
    /\ returncode = <<ReturnCodes.sigkill>>
    /\ asyncTasks = "cancelled"

\* C10: in main() a miss never ends the run.  The messages are sent in the
\* fixed order, the probes are checked in the fixed order, a probe follows
\* every checked probe but the last, and a run whose body ends with no
\* timeout and no failure has checked all four probes, whatever the labels
\* were.
C10_MissNeverAborts ==
    prog = "main" =>
        /\ IsPrefix(sent, MainOrder)
        /\ \A i \in 1..Len(checked) : checked[i].title = Probes[i].label
        /\ outcome \notin {"timeout", "error", "array", "null", "spawn"} =>
               /\ outcome = "none"
               /\ pc \in MainTeardown \cup {"done"} => Len(checked) = Len(Probes)

\* C10 witness: main() is over, the first probe was answered with no item
\* at all and reported every expected label missing, and all four probes
\* were checked.
C10_Witness ==
    /\ prog = "main"
    /\ pc = "done"
    /\ Len(checked) = Len(Probes)
    /\ checked[1].hits = <<>>
    /\ checked[1].misses = Probes[1].expected
    /\ sent = MainOrder

----------------------------------------------------------------------------
(* main.py: position_for(text, needle, offset, occurrence)                 *)
(* A str is the sequence of its characters; an index is counted from 0 as  *)
(* in Python.                                                              *)

\* Bounds of the texts, needles, offsets and occurrences tried.
MaxText == 3
MaxNeedle == 2
MaxOffset == 2
MaxOccurrence == 2

Newline == "\n"

Chars == {"a", "b", Newline}

MinOf(S) == CHOOSE x \in S : \A y \in S : x <= y

MaxOf(S) == CHOOSE x \in S : \A y \in S : y <= x

\* text[i : i + len(needle)] == needle
MatchAt(text, needle, i) ==
    /\ i + Len(needle) <= Len(text)
    /\ \A k \in 1..Len(needle) : text[i + k] = needle[k]

\* text.index(needle, start), for start >= 0: <<i>> for the lowest index
\* i >= start at which the needle matches, <<>> for ValueError.
Index(text, needle, start) ==
    LET found == {i \in start..Len(text) : MatchAt(text, needle, i)}
    IN  IF found = {} THEN <<>> ELSE <<MinOf(found)>>

\* A search that resumed after the end of the previous match.
SearchFromEnd(idx, needle) == IF idx < 0 THEN 0 ELSE idx + Len(needle)

\* Where the next search starts: idx + 1.
SearchFrom(idx, needle) == idx + 1

\* for _ in range(n): idx = text.index(needle, idx + 1)
\* <<idx>> after the loop, <<>> if an index call raised.
RECURSIVE Search(_, _, _, _)
Search(text, needle, idx, n) ==
    IF n <= 0
    THEN <<idx>>
    ELSE LET r == Index(text, needle, SearchFrom(idx, needle))
         IN  IF r = <<>> THEN <<>> ELSE Search(text, needle, r[1], n - 1)

\* The end of the slice text[0:idx] as Python takes it: a negative end
\* counts from the end of the text, and both are clipped to the text.
SliceEnd(text, idx) ==
    IF idx < 0
    THEN (IF idx + Len(text) < 0 THEN 0 ELSE idx + Len(text))
    ELSE (IF idx > Len(text) THEN Len(text) ELSE idx)

\* text.count("\n", 0, idx)
CountNewlines(text, idx) ==
    Cardinality({i \in 0..(SliceEnd(text, idx) - 1) : text[i + 1] = Newline})

\* text.rfind("\n", 0, idx)
RFindNewline(text, idx) ==
    LET at == {i \in 0..(SliceEnd(text, idx) - 1) : text[i + 1] = Newline}
    IN  IF at = {} THEN -1 ELSE MaxOf(at)

\* A column counted from the newline itself.
ColumnFromNewline(idx, last_nl) == idx - (IF last_nl # -1 THEN last_nl ELSE 0)

\* col = idx - (last_nl + 1 if last_nl != -1 else 0)
Column(idx, last_nl) == idx - (IF last_nl # -1 THEN last_nl + 1 ELSE 0)

\* position_for: found is the index after the loop (<<>> if it raised), pos
\* the Position returned (<<>> if none is).
PositionFor(text, needle, offset, occurrence) ==
    LET found == Search(text, needle, -1, occurrence + 1)
    IN  IF found = <<>>
        THEN [found |-> <<>>, pos |-> <<>>]
        ELSE LET idx == found[1] + offset
             IN  [found |-> found,
                  pos |-> << [line |-> CountNewlines(text, idx),
                              character |-> Column(idx, RFindNewline(text, idx))] >>]

PositionForCalls ==
    [fn : {"position_for"},
     text : SeqsUpTo(Chars, MaxText),
     needle : SeqsUpTo(Chars, MaxNeedle),
     offset : (0 - MaxOffset)..MaxOffset,
     occurrence : 0..MaxOccurrence,
     result : {<<>>}]

\* Every variable of a run is at rest while a pure function is called.
AtRest == UNCHANGED <<prog, pc, procVars, sigVars, drain, asyncTasks, wireVars,
                      outcome, failedAt, checked, stopReturned, diag>>

CallPositionFor ==
    /\ pc = "pure"
    /\ call.fn = "position_for"
    /\ call.result = <<>>
    /\ call' = [call EXCEPT !.result =
                    <<PositionFor(call.text, call.needle, call.offset,
                                  call.occurrence)>>]
    /\ AtRest

----------------------------------------------------------------------------
(* main.py: print_result(title, items, expected), on items in any order    *)

\* The longest expected list tried.
MaxExpected == 2

ExpectedLabels == {"greet", "grab"}

ReturnedLabels == ExpectedLabels \cup {OtherLabel}

\* original: the items as the server listed them; items: the same items in
\* the order print_result is given them.
PrintResultCalls ==
    {[fn |-> "print_result", original |-> it, items |-> it, expected |-> ex,
      result |-> <<>>] :
        it \in ItemsOver(ReturnedLabels),
        ex \in SeqsUpTo(ExpectedLabels, MaxExpected)}

Swap(seq, i) ==
    [k \in 1..Len(seq) |->
        IF k = i THEN seq[i + 1] ELSE IF k = i + 1 THEN seq[i] ELSE seq[k]]

\* The items are permuted: two neighbours change places.
ShuffleItems ==
    /\ pc = "pure"
    /\ call.fn = "print_result"
    /\ call.result = <<>>
    /\ \E i \in 1..(Len(call.items) - 1) :
        call' = [call EXCEPT !.items = Swap(call.items, i)]
    /\ AtRest

CallPrintResult ==
    /\ pc = "pure"
    /\ call.fn = "print_result"
    /\ call.result = <<>>
    /\ call' = [call EXCEPT !.result =
                    << [report |-> PrintResult("title", call.items, call.expected),
                        raised |-> PrintResultRaises(call.items, call.expected)] >>]
    /\ AtRest

----------------------------------------------------------------------------
(* main.py: request_completion(client, uri, position, trigger_character)   *)

\* The trigger_character arguments tried: None, the empty str, and the two
\* characters main() passes.
TriggerArguments == {<<>>, <<"">>, <<".">>, <<"@">>}

\* if trigger_character: None and the empty str are false.
Truthy(trigger) == trigger # <<>> /\ trigger[1] # ""

\* The CompletionContext request_completion builds.
CompletionContext(trigger) ==
    IF Truthy(trigger)
    THEN [trigger_kind |-> "TriggerCharacter", trigger_character |-> trigger]
    ELSE [trigger_kind |-> "Invoked", trigger_character |-> <<>>]

RequestCompletionCalls ==
    [fn : {"request_completion"}, trigger : TriggerArguments, result : {<<>>}]

CallRequestCompletion ==
    /\ pc = "pure"
    /\ call.fn = "request_completion"
    /\ call.result = <<>>
    /\ call' = [call EXCEPT !.result = <<CompletionContext(call.trigger)>>]
    /\ AtRest

----------------------------------------------------------------------------
(* main.py: _drain_stderr, on one line of the server's stderr              *)

\* The longest stderr line tried.
MaxLine == 5

Space == " "

LineChars == {"e", "E", "r", "R", "o", "O", Space}

\* str.rstrip(): the whitespace at the end is dropped.
RECURSIVE RStrip(_)
RStrip(text) ==
    IF text # <<>> /\ text[Len(text)] = Space
    THEN RStrip(SubSeq(text, 1, Len(text) - 1))
    ELSE text

\* word in text
Contains(text, word) == \E i \in 0..Len(text) : MatchAt(text, word, i)

\* The three spellings the drain task looks for.
ErrorSpellings ==
    { <<"E", "R", "R", "O", "R">>, <<"E", "r", "r", "o", "r">>,
      <<"e", "r", "r", "o", "r">> }

\* text = line.decode(errors="replace").rstrip(), logged if
\* "ERROR" in text or "Error" in text or "error" in text.
DrainLine(line) ==
    LET text == RStrip(line)
    IN  [text |-> text,
         echoed |-> \E word \in ErrorSpellings : Contains(text, word)]

DrainLineCalls ==
    [fn : {"drain_line"}, line : SeqsUpTo(LineChars, MaxLine), result : {<<>>}]

CallDrainLine ==
    /\ pc = "pure"
    /\ call.fn = "drain_line"
    /\ call.result = <<>>
    /\ call' = [call EXCEPT !.result = <<DrainLine(call.line)>>]
    /\ AtRest

----------------------------------------------------------------------------
(* The pure functions called on their own, on every argument in the bounds *)

PureCalls ==
    PositionForCalls \cup PrintResultCalls \cup RequestCompletionCalls
        \cup DrainLineCalls

PureInit ==
    /\ prog = "main"
    /\ pc = "pure"
    /\ proc = "none"
    /\ returncode = <<>>
    /\ stdinClosed = FALSE
    /\ termSent = FALSE
    /\ killSent = FALSE
    /\ waitExpired = FALSE
    /\ drain = "none"
    /\ asyncTasks = "none"
    /\ sent = <<>>
    /\ initAnswered = FALSE
    /\ inflight = "none"
    /\ timer = 0
    /\ outcome = "none"
    /\ failedAt = 0
    /\ checked = <<>>
    /\ stopReturned = FALSE
    /\ call \in PureCalls
    /\ diag = "none"

PureNext ==
    \/ CallPositionFor
    \/ ShuffleItems
    \/ CallPrintResult
    \/ CallRequestCompletion
    \/ CallDrainLine

PureSpec == PureInit /\ [][PureNext]_vars

----------------------------------------------------------------------------
(* Claims on position_for                                                  *)

\* The indices at which the needle occurs in the text, overlapping
\* occurrences included.
AllMatches(text, needle) == {i \in 0..Len(text) : MatchAt(text, needle, i)}

RECURSIVE NthSmallest(_, _)
NthSmallest(S, n) ==
    IF n <= 1 THEN MinOf(S) ELSE NthSmallest(S \ {MinOf(S)}, n - 1)

\* The absolute index of a (line, column): the lengths of the first `line`
\* lines, newlines included, plus the column; <<>> if the text has not that
\* many lines.
RECURSIVE LineStart(_, _)
LineStart(text, line) ==
    IF line = 0
    THEN <<0>>
    ELSE LET nls == {i \in 1..Len(text) : text[i] = Newline}
         IN  IF nls = {}
             THEN <<>>
             ELSE LET rest == LineStart(SubSeq(text, MinOf(nls) + 1, Len(text)),
                                        line - 1)
                  IN  IF rest = <<>> THEN <<>> ELSE <<MinOf(nls) + rest[1]>>

ToIndex(text, pos) ==
    LET start == LineStart(text, pos.line)
    IN  IF start = <<>> THEN <<>> ELSE <<start[1] + pos.character>>

PositionForApplied == call.fn = "position_for" /\ call.result # <<>>

EnoughMatches ==
    Cardinality(AllMatches(call.text, call.needle)) >= call.occurrence + 1

\* C11: round trip of position_for.  Whenever the needle occurs at least
\* occurrence + 1 times, the (line, column) returned, taken back to an
\* absolute index (the lengths of the first `line` lines with their
\* newlines, plus the column), is the start of the selected match plus the
\* offset.
C11_PositionRoundTrip ==
    (PositionForApplied /\ EnoughMatches) =>
        /\ call.result[1].pos # <<>>
        /\ ToIndex(call.text, call.result[1].pos[1]) =
               << NthSmallest(AllMatches(call.text, call.needle),
                              call.occurrence + 1) + call.offset >>

\* C11 witness: the second match lies on the second line of the text and a
\* position past it was returned.
C11_Witness ==
    /\ PositionForApplied
    /\ call.text = <<"a", Newline, "a">>
    /\ call.needle = <<"a">>
    /\ call.occurrence = 1
    /\ call.offset = 1
    /\ call.result[1].pos = << [line |-> 1, character |-> 1] >>

----------------------------------------------------------------------------
(* Claims on print_result                                                  *)

PrintResultApplied == call.fn = "print_result" /\ call.result # <<>>

\* s is t with some elements left out, the order kept.
RECURSIVE IsSubsequence(_, _)
IsSubsequence(s, t) ==
    IF s = <<>> THEN TRUE
    ELSE IF t = <<>> THEN FALSE
    ELSE IF Head(s) = Head(t) THEN IsSubsequence(Tail(s), Tail(t))
    ELSE IsSubsequence(s, Tail(t))

\* e is h and m interleaved: every element of e is the next of h or the
\* next of m, and both are used up.
RECURSIVE Interleaves(_, _, _)
Interleaves(e, h, m) ==
    IF e = <<>>
    THEN h = <<>> /\ m = <<>>
    ELSE \/ h # <<>> /\ Head(h) = Head(e) /\ Interleaves(Tail(e), Tail(h), m)
         \/ m # <<>> /\ Head(m) = Head(e) /\ Interleaves(Tail(e), h, Tail(m))

Returned(items, label) == \E i \in 1..Len(items) : items[i].label = label

\* C13: the expectation check is independent of the order of the items:
\* however the returned items are permuted, the hit list and the miss list
\* are those of the items in the order of the server, and both lists keep
\* the order of the expected list.
C13_OrderIndependent ==
    PrintResultApplied =>
        LET report == call.result[1].report
            first == PrintResult("title", call.original, call.expected)
        IN  /\ report.hits = first.hits
            /\ report.misses = first.misses
            /\ IsSubsequence(report.hits, call.expected)
            /\ IsSubsequence(report.misses, call.expected)

\* C13 witness: the server listed grab before greet, the items were
\* permuted, and the hits are in the order of the expected list.
C13_Witness ==
    /\ PrintResultApplied
    /\ call.original = << [label |-> "greet"], [label |-> "grab"] >>
    /\ call.items = << [label |-> "grab"], [label |-> "greet"] >>
    /\ call.expected = <<"greet", "grab">>
    /\ call.result[1].report.hits = <<"greet", "grab">>

\* C14: the expectation check never raises and splits the expected list:
\* the hits are expected labels that were returned, the misses expected
\* labels that were not, the expected list is the two interleaved (every
\* entry is in exactly one of them, in its place), and with no item returned
\* the hits are empty and the misses are the expected list.
C14_HitsAndMissesPartition ==
    PrintResultApplied =>
        LET report == call.result[1].report
        IN  /\ ~call.result[1].raised
            /\ \A i \in 1..Len(report.hits) : Returned(call.items, report.hits[i])
            /\ \A i \in 1..Len(report.misses) :
                   ~Returned(call.items, report.misses[i])
            /\ Len(report.hits) + Len(report.misses) = Len(call.expected)
            /\ Interleaves(call.expected, report.hits, report.misses)
            /\ call.items = <<>> =>
                   (report.hits = <<>> /\ report.misses = call.expected)

\* C14 witness: one expected label was returned and the other was not.
C14_Witness ==
    /\ PrintResultApplied
    /\ call.expected = <<"greet", "grab">>
    /\ call.items = << [label |-> "other"], [label |-> "grab"] >>
    /\ call.result[1].report.hits = <<"grab">>
    /\ call.result[1].report.misses = <<"greet">>

----------------------------------------------------------------------------
(* Claims on request_completion and on the drain task                      *)

RequestCompletionApplied == call.fn = "request_completion" /\ call.result # <<>>

\* C15: the completion request says "triggered by character", with that
\* character, exactly when the caller supplies a trigger character, and
\* "invoked" exactly when it supplies none (None), whatever the argument.
C15_TriggerKindFollowsArgument ==
    RequestCompletionApplied =>
        LET context == call.result[1]
        IN  /\ (call.trigger # <<>>) <=>
                   /\ context.trigger_kind = "TriggerCharacter"
                   /\ context.trigger_character = call.trigger
            /\ (call.trigger = <<>>) <=> (context.trigger_kind = "Invoked")

DrainLineApplied == call.fn = "drain_line" /\ call.result # <<>>

Lower(c) ==
    CASE c = "E" -> "e"
      [] c = "R" -> "r"
      [] c = "O" -> "o"
      [] OTHER -> c

LowerAll(text) == [i \in 1..Len(text) |-> Lower(text[i])]

\* C16: the drain task echoes a stderr line exactly when the line holds
\* "error" in any mix of upper and lower case.
C16_EchoIffErrorAnyCase ==
    DrainLineApplied =>
        (call.result[1].echoed <=>
            Contains(LowerAll(call.line), <<"e", "r", "r", "o", "r">>))


\* ---------------------------------------------------------------------
\* C17, C18, C19: the exit code at teardown, the shape of a completion
\* response, and the readers of the server's stderr.

\* What the server wrote to stderr has been shown: by the read of teardown,
\* or line by line by the fixture's pump task, which prints every line it
\* reads and has read them all once it is done.  The reader task of
\* main() prints only the lines holding an error spelling and keeps none.
StderrSurfaced ==
    \/ diag = "surfaced"
    \/ prog = "fixture" /\ drain = "done"

\* C17: once teardown has returned with the server's return code set and
\* not 0, what stderr held has been surfaced as a diagnostic, and reading
\* it never raised.
C17_NonZeroExitSurfaced ==
    /\ (stopReturned /\ NonZeroExit) => StderrSurfaced
    /\ outcome # "reader"

\* C18: a completion response in either allowed shape, a CompletionList or
\* a bare array of items, is taken without an exception: the run never
\* fails on a bare array.
C18_BothShapesHandled == outcome # "array"

\* Who is reading the server's stderr stream: the reader (pump) task while
\* it is pending, and the fixture while it is inside stderr.read().
StderrReaders ==
    (IF drain = "pending" THEN {"task"} ELSE {})
        \cup (IF pc \in {"f_init_read", "f_diag_read"} THEN {"fixture"} ELSE {})

\* C19: the stderr stream has at most one reader at any time.
C19_OneStderrReader == Cardinality(StderrReaders) <= 1

====
